---- MODULE Spec2Model ----
(***************************************************************************)
(* Model of healthdcat_converter: the plugin registry (PluginBase), the    *)
(* discovery loader (PluginLoader), the built-in steps (csv_reader,        *)
(* validator, rdf_generator, custom_transform) and the orchestrator        *)
(* (CSVtoRDFConverter.convert / execute_plugin).                           *)
(*                                                                         *)
(* Python values are encoded with one record shape per level:              *)
(*   scalar  [ty, n, s]      ty in none/str/int/bool/float; s = characters *)
(*   row     [ty, items]     ty = "dict" (items = ordered <<[k, v]>>) or   *)
(*                           "scalar" (a record that is not a mapping)     *)
(*   data    [ty, rows]      ty = "list", "none", "scalar" or "path"       *)
(***************************************************************************)
EXTENDS Integers, Sequences, FiniteSets, TLC

VARIABLES
    registry,   \* PluginBase._registry, process-wide
    imported,   \* the plugin modules are in sys.modules
    loaders,    \* per PluginLoader: its plugins_package and _loaded, and how
                \* many times it has tried to import that package
    scans,      \* how many times a loader has scanned the plugins package
    data,       \* CSVtoRDFConverter.data: the contents of the object it names
    bound,      \* which object CSVtoRDFConverter.data names
    last,       \* the last call on the orchestrator and what it did
    fin, fout   \* argument and result of a step executed on its own

vars == <<registry, imported, loaders, scans, data, bound, last, fin, fout>>

\* ------------------------------------------------------------------ bounds
MaxRows == 2
MaxReq == 2
MaxText == 2
MaxInferRows == 3
\* how often one loader is driven into a discovery attempt
MaxAttempts == 2

\* ------------------------------------------------------- value encoding
PyNone == [ty |-> "none", n |-> 0, s |-> <<>>]
PyStr(cs) == [ty |-> "str", n |-> 0, s |-> cs]
PyInt(k) == [ty |-> "int", n |-> k, s |-> <<>>]
PyBool(b) == [ty |-> "bool", n |-> IF b THEN 1 ELSE 0, s |-> <<>>]
\* a float is kept as its number of tenths (15 is 1.5)
PyFloat(tenths) == [ty |-> "float", n |-> tenths, s |-> <<>>]

Dict(items) == [ty |-> "dict", items |-> items]
ScalarRow == [ty |-> "scalar", items |-> <<>>]

List(rows) == [ty |-> "list", rows |-> rows]
NoneData == [ty |-> "none", rows |-> <<>>]
ScalarData == [ty |-> "scalar", rows |-> <<>>]

\* isinstance(x, list) / isinstance(x, dict)
IsList(d) == d.ty = "list"
IsDict(r) == r.ty = "dict"

\* bool(v) of a scalar: None, "", 0, 0.0 and False are falsy
Truthy(v) ==
    CASE v.ty = "none" -> FALSE
      [] v.ty = "str" -> Len(v.s) > 0
      [] OTHER -> v.n # 0

\* key in row  /  row[key]  /  row.get(key)
DictHas(row, k) == \E i \in 1..Len(row.items) : row.items[i].k = k
DictIndex(row, k) == CHOOSE i \in 1..Len(row.items) : row.items[i].k = k
DictGet(row, k) == IF DictHas(row, k) THEN row.items[DictIndex(row, k)].v ELSE PyNone
DictKeys(row) == [i \in 1..Len(row.items) |-> row.items[i].k]
\* row[k] = v keeps the position of an existing key and appends a new one
DictSet(row, k, v) ==
    IF DictHas(row, k)
    THEN Dict([i \in 1..Len(row.items) |->
                 IF row.items[i].k = k THEN [k |-> k, v |-> v] ELSE row.items[i]])
    ELSE Dict(Append(row.items, [k |-> k, v |-> v]))

\* --------------------------------------------------- ValidatorPlugin
VErr(kind, idx, field) == [kind |-> kind, row |-> idx, field |-> field]

VResult(valid, errors, warnings) ==
    [valid |-> valid, errors |-> errors, warnings |-> warnings]

\* the error is appended but the flag is left alone
Fail_KeepsValid(result, e) == [result EXCEPT !.errors = Append(@, e)]

\* result["valid"] = False; result["errors"].append(e)
Fail(result, e) == [result EXCEPT !.valid = FALSE, !.errors = Append(@, e)]

\* the body of the inner loop: one required field of one row
CheckField(result, row, idx, field, allow_empty) ==
    IF ~DictHas(row, field)
    THEN Fail(result, VErr("missing", idx, field))
    ELSE IF ~allow_empty /\ ~Truthy(DictGet(row, field))
         THEN Fail(result, VErr("empty", idx, field))
         ELSE result

\* for field in required_fields (from position j on)
RECURSIVE CheckFields(_, _, _, _, _, _)
CheckFields(result, row, idx, required_fields, allow_empty, j) ==
    IF j > Len(required_fields) THEN result
    ELSE CheckFields(CheckField(result, row, idx, required_fields[j], allow_empty),
                     row, idx, required_fields, allow_empty, j + 1)

\* a row that is not a dict is skipped without a report
CheckRow_Silent(result, row, idx, required_fields, allow_empty) ==
    IF ~IsDict(row) THEN result
    ELSE CheckFields(result, row, idx, required_fields, allow_empty, 1)

\* the body of the outer loop: a row that is not a dict is reported and
\* the loop continues with the next row
CheckRow(result, row, idx, required_fields, allow_empty) ==
    IF ~IsDict(row)
    THEN Fail(result, VErr("not_dict", idx, ""))
    ELSE CheckFields(result, row, idx, required_fields, allow_empty, 1)

\* for idx, row in enumerate(data) (from position i on); idx is zero-based
RECURSIVE CheckRows(_, _, _, _, _)
CheckRows(result, rows, required_fields, allow_empty, i) ==
    IF i > Len(rows) THEN result
    ELSE CheckRows(CheckRow(result, rows[i], i - 1, required_fields, allow_empty),
                   rows, required_fields, allow_empty, i + 1)

\* the isinstance check on the input is missing
ValidatorPlugin_execute_NoTypeCheck(d, required_fields, allow_empty) ==
    LET result == VResult(TRUE, <<>>, <<>>)
    IN IF Len(d.rows) = 0
       THEN [result EXCEPT !.warnings = Append(@, "Dataset is empty")]
       ELSE CheckRows(result, d.rows, required_fields, allow_empty, 1)

\* the empty list is not told apart from any other list
ValidatorPlugin_execute_NoEmptyCheck(d, required_fields, allow_empty) ==
    LET result == VResult(TRUE, <<>>, <<>>)
    IN IF ~IsList(d)
       THEN Fail(result, VErr("not_list", -1, ""))
       ELSE CheckRows(result, d.rows, required_fields, allow_empty, 1)

ValidatorPlugin_execute(d, required_fields, allow_empty) ==
    LET result == VResult(TRUE, <<>>, <<>>)
    IN IF ~IsList(d)
       THEN Fail(result, VErr("not_list", -1, ""))
       ELSE IF Len(d.rows) = 0
            THEN [result EXCEPT !.warnings = Append(@, "Dataset is empty")]
            ELSE CheckRows(result, d.rows, required_fields, allow_empty, 1)

\* ------------------------------------------- RDFGeneratorPlugin: datatypes
Digits == {"0", "1", "2", "3", "4", "5", "6", "7", "8", "9"}
Whitespace == {" "}
Signs == {"+", "-"}

SubSeqFrom(s, i) == SubSeq(s, i, Len(s))

\* str.strip(): drop the whitespace at both ends
RECURSIVE LStrip(_)
LStrip(s) == IF Len(s) > 0 /\ s[1] \in Whitespace THEN LStrip(Tail(s)) ELSE s
RECURSIVE RStrip(_)
RStrip(s) ==
    IF Len(s) > 0 /\ s[Len(s)] \in Whitespace
    THEN RStrip(SubSeq(s, 1, Len(s) - 1)) ELSE s
Strip(s) == RStrip(LStrip(s))

DropSign(s) == IF Len(s) > 0 /\ s[1] \in Signs THEN Tail(s) ELSE s

\* digits, with single underscores allowed between two digits
IsDigitPart(s) ==
    /\ Len(s) > 0
    /\ \A i \in 1..Len(s) : s[i] \in Digits \cup {"_"}
    /\ s[1] \in Digits
    /\ s[Len(s)] \in Digits
    /\ \A i \in 1..(Len(s) - 1) : ~(s[i] = "_" /\ s[i + 1] = "_")

\* int(text) succeeds: [space] [sign] digitpart [space]
IsIntText(s) == IsDigitPart(DropSign(Strip(s)))

Lower(c) ==
    CASE c = "I" -> "i" [] c = "N" -> "n" [] c = "F" -> "f" [] c = "A" -> "a"
      [] c = "T" -> "t" [] c = "Y" -> "y" [] c = "E" -> "e" [] OTHER -> c
LowerSeq(s) == [i \in 1..Len(s) |-> Lower(s[i])]

FloatWords == { <<"i", "n", "f">>, <<"n", "a", "n">>,
                <<"i", "n", "f", "i", "n", "i", "t", "y">> }

\* position of the first character of s that is in cs, 0 when there is none
FirstIn(s, cs) ==
    IF \E i \in 1..Len(s) : s[i] \in cs
    THEN CHOOSE i \in 1..Len(s) : s[i] \in cs /\ \A j \in 1..(i - 1) : s[j] \notin cs
    ELSE 0

\* digitpart [. [digitpart]]  |  . digitpart
IsMantissa(m) ==
    LET dot == FirstIn(m, {"."})
        ip == SubSeq(m, 1, dot - 1)
        fp == SubSeqFrom(m, dot + 1)
    IN IF dot = 0 THEN IsDigitPart(m)
       ELSE \/ IsDigitPart(ip) /\ (Len(fp) = 0 \/ IsDigitPart(fp))
            \/ Len(ip) = 0 /\ IsDigitPart(fp)

\* float(text) succeeds: [space] [sign] (inf | nan | mantissa [e [sign] digitpart]) [space]
IsFloatText(s) ==
    LET u == DropSign(Strip(s))
        e == FirstIn(u, {"e", "E"})
    IN \/ LowerSeq(u) \in FloatWords
       \/ e = 0 /\ IsMantissa(u)
       \/ /\ e > 0
          /\ IsMantissa(SubSeq(u, 1, e - 1))
          /\ IsDigitPart(DropSign(SubSeqFrom(u, e + 1)))

\* "if value:" in place of the two comparisons
NonEmpty_Truthy(v) == Truthy(v)

\* value is not None and value != ""
NonEmpty(v) == v.ty # "none" /\ ~(v.ty = "str" /\ Len(v.s) = 0)

\* isinstance(v, t) for t in bool, int, float: bool is a subclass of int
IsInstance(v, t) == v.ty = t \/ (t = "int" /\ v.ty = "bool")

\* the isinstance chain, then int() and float() tried on the stripped text
ClassifyValue(v) ==
    IF IsInstance(v, "bool") THEN "boolean"
    ELSE IF IsInstance(v, "int") THEN "integer"
    ELSE IF IsInstance(v, "float") THEN "decimal"
    ELSE IF IsIntText(Strip(v.s)) THEN "integer"
    ELSE IF IsFloatText(Strip(v.s)) THEN "decimal"
    ELSE "string"

\* for row in data (from position i on): the first non-empty value decides;
\* row.get on a row that is not a dict raises AttributeError
RECURSIVE InferFrom(_, _, _)
InferFrom(rows, column_name, i) ==
    IF i > Len(rows) THEN "string"
    ELSE IF ~IsDict(rows[i]) THEN "AttributeError"
    ELSE LET value == DictGet(rows[i], column_name)
         IN IF NonEmpty(value) THEN ClassifyValue(value)
            ELSE InferFrom(rows, column_name, i + 1)

_infer_datatype(rows, column_name) == InferFrom(rows, column_name, 1)

\* ------------------------------------------- RDFGeneratorPlugin: the graph
\* a graph is a set of triples; subjects and objects are terms
Term(kind, base, idx, name) == [kind |-> kind, base |-> base, idx |-> idx, name |-> name]
DatasetRef(uri) == Term("dataset", uri, 0, "")
SchemaRef(uri) == Term("schema", uri, 0, "")
\* f"{dataset_uri}/schema/column/{idx}", idx zero-based
ColumnRef(uri, idx) == Term("column", uri, idx, "")
Vocab(name) == Term("vocab", "", 0, name)
Literal(text) == Term("literal", "", 0, text)
NumLiteral(k) == Term("number", "", k, "")
Triple(s, p, o) == [s |-> s, p |-> p, o |-> o]

_add_dataset_metadata(dataset_uri, d) ==
    LET dataset == DatasetRef(dataset_uri)
    IN { Triple(dataset, "rdf:type", Vocab("dcat:Dataset")),
         Triple(dataset, "dct:title", Literal("Health Dataset")),
         Triple(dataset, "dct:description", Literal("Dataset converted from CSV")),
         Triple(dataset, "healthdcat:hasHealthCategory", Literal("general")) }
       \cup (IF IsList(d) /\ Len(d.rows) > 0
             THEN { Triple(dataset, "schema:numberOfItems", NumLiteral(Len(d.rows))) }
                  \cup (IF IsDict(d.rows[1])
                        THEN { Triple(dataset, "csvw:tableSchema", SchemaRef(dataset_uri)) }
                        ELSE {})
             ELSE {})

\* the columns are numbered from 1
_add_table_schema_OneBased(dataset_uri, d) ==
    LET schema_uri == SchemaRef(dataset_uri)
        columns == DictKeys(d.rows[1])
        col_uri(i) == ColumnRef(dataset_uri, i)
    IN { Triple(schema_uri, "rdf:type", Vocab("csvw:TableSchema")) }
       \cup { Triple(schema_uri, "csvw:column", col_uri(i)) : i \in 1..Len(columns) }
       \cup UNION { { Triple(col_uri(i), "rdf:type", Vocab("csvw:Column")),
                      Triple(col_uri(i), "csvw:name", Literal(columns[i])),
                      Triple(col_uri(i), "csvw:title", Literal(columns[i])),
                      Triple(col_uri(i), "rdfs:label", Literal(columns[i])),
                      Triple(col_uri(i), "csvw:datatype",
                             Literal(_infer_datatype(d.rows, columns[i]))) }
                    : i \in 1..Len(columns) }

\* columns = list(data[0].keys()); Python numbers them from 0
_add_table_schema(dataset_uri, d) ==
    LET schema_uri == SchemaRef(dataset_uri)
        columns == DictKeys(d.rows[1])
        col_uri(i) == ColumnRef(dataset_uri, i - 1)
    IN { Triple(schema_uri, "rdf:type", Vocab("csvw:TableSchema")) }
       \cup { Triple(schema_uri, "csvw:column", col_uri(i)) : i \in 1..Len(columns) }
       \cup UNION { { Triple(col_uri(i), "rdf:type", Vocab("csvw:Column")),
                      Triple(col_uri(i), "csvw:name", Literal(columns[i])),
                      Triple(col_uri(i), "csvw:title", Literal(columns[i])),
                      Triple(col_uri(i), "rdfs:label", Literal(columns[i])),
                      Triple(col_uri(i), "csvw:datatype",
                             Literal(_infer_datatype(d.rows, columns[i]))) }
                    : i \in 1..Len(columns) }

HasSchema(d) == IsList(d) /\ Len(d.rows) > 0 /\ IsDict(d.rows[1])

\* _infer_datatype raises when it reaches a row that is not a dict
SchemaRaises(d) ==
    /\ HasSchema(d)
    /\ \E i \in 1..Len(d.rows[1].items) :
          _infer_datatype(d.rows, d.rows[1].items[i].k) = "AttributeError"

\* the serializer is the RDF library: the text is kept as (format, graph)
RDFGeneratorPlugin_graph(d, dataset_uri) ==
    _add_dataset_metadata(dataset_uri, d)
      \cup (IF HasSchema(d) THEN _add_table_schema(dataset_uri, d) ELSE {})

\* ------------------------------------------------------ CSVReaderPlugin
\* a source is the state of the file at the path when it is read:
\* missing, or a header line and data lines of cells
Source(exists, header, lines) == [exists |-> exists, header |-> header, lines |-> lines]
MissingFile == Source(FALSE, <<>>, <<>>)

\* csv.DictReader: one dict per non-blank line, keys in header order,
\* None (restval) for the cells a short line lacks
ReadLine(header, line) ==
    Dict([i \in 1..Len(header) |->
            [k |-> header[i],
             v |-> IF i <= Len(line) THEN PyStr(line[i]) ELSE PyNone]])

RECURSIVE ReadLines(_, _)
ReadLines(header, lines) ==
    IF Len(lines) = 0 THEN <<>>
    ELSE IF Len(Head(lines)) = 0 THEN ReadLines(header, Tail(lines))
    ELSE <<ReadLine(header, Head(lines))>> \o ReadLines(header, Tail(lines))

CSVReaderPlugin_read(src) == List(ReadLines(src.header, src.lines))

\* ------------------------------------------------ CustomTransformPlugin
CustomTransformName == <<"c", "u", "s", "t", "o", "m", "_", "t", "r", "a", "n", "s", "f", "o", "r", "m">>

TransformRow(row) ==
    IF IsDict(row)
    THEN DictSet(DictSet(row, "_transformed", PyBool(TRUE)),
                 "_plugin", PyStr(CustomTransformName))
    ELSE row

\* the rows are changed in place and collected into a new list
CustomTransformPlugin_execute(d) ==
    IF IsList(d) THEN List([i \in 1..Len(d.rows) |-> TransformRow(d.rows[i])]) ELSE d

\* ------------------------------------------------ CustomFilterPlugin
CustomFilterPlugin_execute(d, kw) ==
    IF ~IsList(d) THEN d
    ELSE IF kw.filter_key = "" THEN d
    ELSE List(SelectSeq(d.rows,
                LAMBDA row : IsDict(row) /\ DictHas(row, kw.filter_key)
                             /\ DictGet(row, kw.filter_key) = kw.filter_value))

\* ------------------------------------------------------------ PluginBase
\* a plugin class: its class name, whether that name starts with "_", the
\* name its get_name override returns ("" when it has none) and the execute
\* it defines or inherits
Class(cname, private, override, kind) ==
    [cname |-> cname, private |-> private, override |-> override, kind |-> kind]

NoClass == Class("", FALSE, "", "")

get_name(cls) == IF cls.override = "" THEN cls.cname ELSE cls.override

CSVReaderPlugin == Class("CSVReaderPlugin", FALSE, "csv_reader", "reader")
CustomTransformPlugin == Class("CustomTransformPlugin", FALSE, "custom_transform", "transform")
RDFGeneratorPlugin == Class("RDFGeneratorPlugin", FALSE, "rdf_generator", "generator")
ValidatorPlugin == Class("ValidatorPlugin", FALSE, "validator", "validator")

\* classes a program defines itself: the example filter, subclasses of the
\* built-in steps that inherit get_name and execute, and one private subclass
CustomFilterPlugin == Class("CustomFilterPlugin", FALSE, "custom_filter", "filter")
\* subclasses of the built-in steps that keep the inherited name, so that
\* defining one replaces the step registered under it
FastReader == Class("FastReader", FALSE, "csv_reader", "reader")
StrictValidator == Class("StrictValidator", FALSE, "validator", "validator")
CompactGenerator == Class("CompactGenerator", FALSE, "rdf_generator", "generator")
UserClasses ==
    { CustomFilterPlugin,
      StrictValidator,
      Class("_DraftValidator", TRUE, "validator", "validator") }

\* _registry is a dict: insertion-ordered, one entry per name
RegHas(reg, name) == \E i \in 1..Len(reg) : reg[i].name = name
RegIndex(reg, name) == CHOOSE i \in 1..Len(reg) : reg[i].name = name
\* setdefault: the first class registered under a name stays
RegSet_KeepFirst(reg, name, cls) ==
    IF RegHas(reg, name) THEN reg ELSE Append(reg, [name |-> name, cls |-> cls])

RegSet(reg, name, cls) ==
    IF RegHas(reg, name)
    THEN [i \in 1..Len(reg) |->
            IF reg[i].name = name THEN [name |-> name, cls |-> cls] ELSE reg[i]]
    ELSE Append(reg, [name |-> name, cls |-> cls])

__init_subclass__(reg, cls) ==
    IF ~cls.private THEN RegSet(reg, get_name(cls), cls) ELSE reg

\* _registry.get(name): no KeyError for a name that is not registered
PluginBase_get_plugin_Lenient(reg, name) ==
    IF RegHas(reg, name)
    THEN [found |-> TRUE, cls |-> reg[RegIndex(reg, name)].cls]
    ELSE [found |-> TRUE, cls |-> NoClass]

\* cls._registry[name]: found is FALSE where Python raises KeyError
PluginBase_get_plugin(reg, name) ==
    IF RegHas(reg, name)
    THEN [found |-> TRUE, cls |-> reg[RegIndex(reg, name)].cls]
    ELSE [found |-> FALSE, cls |-> NoClass]

list_plugins(reg) == [i \in 1..Len(reg) |-> reg[i].name]

\* ---------------------------------------------------------- PluginLoader
DefaultPackage == "healthdcat_converter.plugins"
\* the modules of the plugins package, in the order iter_modules yields them
PluginModules == <<CSVReaderPlugin, CustomTransformPlugin, RDFGeneratorPlugin, ValidatorPlugin>>
Packages == {DefaultPackage, "no.such.package"}
Resolvable(pkg) == pkg = DefaultPackage

RECURSIVE ImportAll(_, _)
ImportAll(reg, mods) ==
    IF Len(mods) = 0 THEN reg
    ELSE ImportAll(__init_subclass__(reg, Head(mods)), Tail(mods))

\* the process state the loader works on
PS(reg, imp, lds, n) == [registry |-> reg, imported |-> imp, loaders |-> lds, scans |-> n]

\* the _loaded guard is missing: every call scans the package again
load_plugins_NoGuard(ps, id) ==
    IF ~Resolvable(ps.loaders[id].pkg)
    THEN PS(ps.registry, ps.imported,
            [ps.loaders EXCEPT ![id].attempts = @ + 1], ps.scans)
    ELSE PS(IF ps.imported THEN ps.registry ELSE ImportAll(ps.registry, PluginModules),
            TRUE,
            [ps.loaders EXCEPT ![id].loaded = TRUE, ![id].attempts = @ + 1],
            ps.scans + 1)

\* load_plugins: a module already in sys.modules is not executed again, so
\* its classes register on the first import only; an ImportError leaves
\* _loaded False and is printed as a warning
load_plugins(ps, id) ==
    IF ps.loaders[id].loaded THEN ps
    ELSE IF ~Resolvable(ps.loaders[id].pkg)
    THEN PS(ps.registry, ps.imported,
            [ps.loaders EXCEPT ![id].attempts = @ + 1], ps.scans)
    ELSE PS(IF ps.imported THEN ps.registry ELSE ImportAll(ps.registry, PluginModules),
            TRUE,
            [ps.loaders EXCEPT ![id].loaded = TRUE, ![id].attempts = @ + 1],
            ps.scans + 1)

\* print(f"Warning: Could not load plugins package: {e}")
LoadWarning == "Warning: Could not load plugins package"

LoadWarns(ps, id) == ~ps.loaders[id].loaded /\ ~Resolvable(ps.loaders[id].pkg)
\* what one call of load_plugins prints
LoadPrinted(ps, id) == IF LoadWarns(ps, id) THEN <<LoadWarning>> ELSE <<>>

\* the loader hands out the class it discovered under the name, whatever
\* is registered under it now
PluginLoader_get_plugin_Discovered(ps, id, name) ==
    LET ps1 == IF ~ps.loaders[id].loaded THEN load_plugins(ps, id) ELSE ps
        hit == PluginBase_get_plugin(ps1.registry, name)
        own == PluginBase_get_plugin(ImportAll(<<>>, PluginModules), name)
    IN [ps |-> ps1, found |-> hit.found, cls |-> IF own.found THEN own.cls ELSE hit.cls]

\* a loader whose discovery failed finds nothing
PluginLoader_get_plugin_RequiresLoaded(ps, id, name) ==
    LET ps1 == IF ~ps.loaders[id].loaded THEN load_plugins(ps, id) ELSE ps
        hit == IF ps1.loaders[id].loaded THEN PluginBase_get_plugin(ps1.registry, name)
               ELSE [found |-> FALSE, cls |-> NoClass]
    IN [ps |-> ps1, found |-> hit.found, cls |-> hit.cls]

\* PluginLoader.get_plugin: discovery on first use, then the registry lookup
PluginLoader_get_plugin(ps, id, name) ==
    LET ps1 == IF ~ps.loaders[id].loaded THEN load_plugins(ps, id) ELSE ps
        hit == PluginBase_get_plugin(ps1.registry, name)
    IN [ps |-> ps1, found |-> hit.found, cls |-> hit.cls]

\* ----------------------------------------------------- CSVtoRDFConverter
Conv == "converter"
Aux == "standalone"
LoaderIds == {Conv, Aux}

DefaultDatasetUri == "http://example.org/dataset/sample"

\* **kwargs: a keyword is a set, empty when the caller leaves it out
Unset == {}
Given(x) == {x}
\* kwargs.get(key, default)
KwGet(opt, default) == IF opt = {} THEN default ELSE CHOOSE x \in opt : TRUE

Opts(validate, required_fields, allow_empty, dataset_uri, filter_key, filter_value) ==
    [validate |-> validate, required_fields |-> required_fields,
     allow_empty |-> allow_empty, dataset_uri |-> dataset_uri,
     filter_key |-> filter_key, filter_value |-> filter_value]
NoOpts == Opts(Unset, Unset, Unset, Unset, "", PyNone)

PathData == [ty |-> "path", rows |-> <<>>]

\* what a call returned
NoVResult == VResult(TRUE, <<>>, <<>>)
Output(ty, format, graph, vres, d, names) ==
    [ty |-> ty, format |-> format, graph |-> graph, vres |-> vres, data |-> d,
     names |-> names]
NoOutput == Output("none", "", {}, NoVResult, NoneData, <<>>)
RdfOutput(format, graph) == Output("rdf", format, graph, NoVResult, NoneData, <<>>)
VOutput(vres) == Output("validation", "", {}, vres, NoneData, <<>>)
DataOutput(d) == Output("data", "", {}, NoVResult, d, <<>>)
NamesOutput(names) == Output("names", "", {}, NoVResult, NoneData, names)

\* what a step did with its input: returned a value or raised
Ran(out) == [exc |-> "", out |-> out]
Raised(exc) == [exc |-> exc, out |-> NoOutput]

\* the reader does not test file_path.exists(): a missing file reads as no
\* records
Execute_NoExistsCheck(cls, input, kw, src) ==
    CASE cls.kind = "reader" ->
           IF input.ty # "path" THEN Raised("TypeError")
           ELSE Ran(DataOutput(CSVReaderPlugin_read(src)))
      [] cls.kind = "validator" ->
           Ran(VOutput(ValidatorPlugin_execute(input,
                          KwGet(kw.required_fields, <<>>), KwGet(kw.allow_empty, TRUE))))
      [] cls.kind = "generator" ->
           IF SchemaRaises(input) THEN Raised("AttributeError")
           ELSE Ran(RdfOutput("turtle",
                     RDFGeneratorPlugin_graph(input,
                        KwGet(kw.dataset_uri, "http://example.org/dataset"))))
      [] cls.kind = "transform" -> Ran(DataOutput(CustomTransformPlugin_execute(input)))
      [] OTHER -> Ran(DataOutput(CustomFilterPlugin_execute(input, kw)))

\* plugin.execute(input, **kwargs) of the class found in the registry
Execute(cls, input, kw, src) ==
    CASE cls.kind = "reader" ->
           IF input.ty # "path" THEN Raised("TypeError")
           ELSE IF ~src.exists THEN Raised("FileNotFoundError")
           ELSE Ran(DataOutput(CSVReaderPlugin_read(src)))
      [] cls.kind = "validator" ->
           Ran(VOutput(ValidatorPlugin_execute(input,
                          KwGet(kw.required_fields, <<>>), KwGet(kw.allow_empty, TRUE))))
      [] cls.kind = "generator" ->
           IF SchemaRaises(input) THEN Raised("AttributeError")
           ELSE Ran(RdfOutput("turtle",
                     RDFGeneratorPlugin_graph(input,
                        KwGet(kw.dataset_uri, "http://example.org/dataset"))))
      [] cls.kind = "transform" -> Ran(DataOutput(CustomTransformPlugin_execute(input)))
      [] OTHER -> Ran(DataOutput(CustomFilterPlugin_execute(input, kw)))

\* a record of one lookup or one execution inside a call
Resolve(name, cls) == [ev |-> "resolve", name |-> name, cls |-> cls.cname, input |-> NoneData]
Executed(name, cls, input) == [ev |-> "execute", name |-> name, cls |-> cls.cname, input |-> input]

NoMessage == [head |-> "", lines |-> <<>>]

\* the stages of convert, by the name each is looked up under
Stages == { "csv_reader", "validator", "rdf_generator" }
NeverRan == [s \in Stages |-> ""]

\* validation is the validation_result of a convert call that validated;
\* loader is the PluginLoader the call went through; before is, per stage,
\* the class that ran it in the latest earlier convert call (history, kept
\* only where calls are tracked)
Call(op, name, auto, src, opts, events, validation, outcome, message, printed, output) ==
    [op |-> op, name |-> name, auto |-> auto, src |-> src, opts |-> opts,
     events |-> events, validation |-> validation, outcome |-> outcome,
     message |-> message, printed |-> printed, output |-> output, loader |-> Conv,
     before |-> NeverRan]

\* the result of a handler: the process state, the cached record set and
\* the call record
Done(ps, d, call) == [ps |-> ps, data |-> d, call |-> call, assigned |-> "kept"]

\* self.data names None until it is assigned ("none"), then the list the
\* latest read returned ("read"), or some other object ("other"); a handler
\* that does not assign self.data keeps what it names ("kept")
Assigned(done, obj) == [done EXCEPT !.assigned = obj]

\* the default of the validate keyword is False
ShouldValidate_DefaultOff(opts) == KwGet(opts.validate, FALSE)

\* validate = kwargs.get("validate", True); if validate:
ShouldValidate(opts) == KwGet(opts.validate, TRUE)

\* the keywords convert passes to the validator
ValidatorKw(opts) ==
    Opts(Unset, Given(KwGet(opts.required_fields, <<>>)),
         Given(KwGet(opts.allow_empty, TRUE)), Unset, "", PyNone)

\* only the first error goes into the message
ValidationMessage_FirstOnly(vres) ==
    [head |-> "Validation failed:", lines |-> SubSeq(vres.errors, 1, 1)]

\* "Validation failed:\n" + "\n".join(validation_result["errors"])
ValidationMessage(vres) == [head |-> "Validation failed:", lines |-> vres.errors]

\* the warnings are dropped
ValidationPrinted_Silent(vres) == <<>>

\* if validation_result["warnings"]: print("Validation warnings:") and one
\* line per warning
ValidationPrinted(vres) ==
    IF Len(vres.warnings) > 0 THEN <<"Validation warnings:">> \o vres.warnings ELSE <<>>

\* the keywords convert passes to the generator; the dataset URI defaults
\* to one built from the stem of the file name
GeneratorKw(opts) ==
    Opts(Unset, Unset, Unset, Given(KwGet(opts.dataset_uri, DefaultDatasetUri)), "", PyNone)

\* convert(**kwargs)
convert(ps0, data0, src, opts) ==
    LET r1 == PluginLoader_get_plugin(ps0, Conv, "csv_reader")
        e1 == <<Resolve("csv_reader", r1.cls)>>
        failed(ps, d, events, vres, exc, msg, printed) ==
            Done(ps, d, Call("convert", "", FALSE, src, opts, events, vres, exc, msg,
                             printed, NoOutput))
        fail(ps, d, events, vres, exc, msg) == failed(ps, d, events, vres, exc, msg, <<>>)
    IN IF ~r1.found THEN fail(r1.ps, data0, e1, NoVResult, "KeyError", NoMessage)
       ELSE
       LET x1 == Execute(r1.cls, PathData, NoOpts, src)
           e2 == Append(e1, Executed("csv_reader", r1.cls, PathData))
       IN IF x1.exc # "" THEN fail(r1.ps, data0, e2, NoVResult, x1.exc, NoMessage)
          ELSE
          Assigned(
          LET d1 == x1.out.data       \* self.data = csv_reader.execute(...)
              r2 == PluginLoader_get_plugin(r1.ps, Conv, "validator")
              e3 == Append(e2, Resolve("validator", r2.cls))
              x2 == Execute(r2.cls, d1, ValidatorKw(opts), src)
              e4 == Append(e3, Executed("validator", r2.cls, d1))
              \* after the validation step, when it did not end the call
              validated == ShouldValidate(opts)
              vres == IF validated THEN x2.out.vres ELSE NoVResult
              psv == IF validated THEN r2.ps ELSE r1.ps
              ev == IF validated THEN e4 ELSE e2
              r3 == PluginLoader_get_plugin(psv, Conv, "rdf_generator")
              e5 == Append(ev, Resolve("rdf_generator", r3.cls))
              x3 == Execute(r3.cls, d1, GeneratorKw(opts), src)
              e6 == Append(e5, Executed("rdf_generator", r3.cls, d1))
          IN IF validated /\ ~r2.found
             THEN fail(r2.ps, d1, e3, NoVResult, "KeyError", NoMessage)
             ELSE IF validated /\ ~vres.valid
             THEN fail(r2.ps, d1, e4, vres, "ValueError", ValidationMessage(vres))
             ELSE IF ~r3.found
             THEN failed(r3.ps, d1, e5, vres, "KeyError", NoMessage, ValidationPrinted(vres))
             ELSE IF x3.exc # ""
             THEN failed(r3.ps, d1, e6, vres, x3.exc, NoMessage, ValidationPrinted(vres))
             ELSE Done(r3.ps, d1,
                       Call("convert", "", FALSE, src, opts, e6, vres, "ok", NoMessage,
                            ValidationPrinted(vres), x3.out)),
          "read")

\* the step is given a copy of the cached record set
execute_plugin_Copies(ps0, data0, plugin_name, given, kw, src) ==
    LET r == PluginLoader_get_plugin(ps0, Conv, plugin_name)
        e1 == <<Resolve(plugin_name, r.cls)>>
        input_data == IF given.ty # "none" THEN given ELSE data0
        x == Execute(r.cls, input_data, kw, src)
        e2 == Append(e1, Executed(plugin_name, r.cls, input_data))
        rec(events, outcome, out) ==
            Call("execute_plugin", plugin_name, given.ty = "none", src, kw, events,
                 NoVResult, outcome, NoMessage, <<>>, out)
    IN IF ~r.found THEN Done(r.ps, data0, rec(e1, "KeyError", NoOutput))
       ELSE IF x.exc # "" THEN Done(r.ps, data0, rec(e2, x.exc, NoOutput))
       ELSE Done(r.ps, data0, rec(e2, "ok", x.out))

\* the record set a step returns becomes the cached one
execute_plugin_Caches(ps0, data0, plugin_name, given, kw, src) ==
    LET r == PluginLoader_get_plugin(ps0, Conv, plugin_name)
        e1 == <<Resolve(plugin_name, r.cls)>>
        input_data == IF given.ty # "none" THEN given ELSE data0
        x == Execute(r.cls, input_data, kw, src)
        e2 == Append(e1, Executed(plugin_name, r.cls, input_data))
        rec(events, outcome, out) ==
            Call("execute_plugin", plugin_name, given.ty = "none", src, kw, events,
                 NoVResult, outcome, NoMessage, <<>>, out)
    IN IF ~r.found THEN Done(r.ps, data0, rec(e1, "KeyError", NoOutput))
       ELSE IF x.exc # "" THEN Done(r.ps, data0, rec(e2, x.exc, NoOutput))
       ELSE IF x.out.ty = "data"
       THEN Assigned(Done(r.ps, x.out.data, rec(e2, "ok", x.out)), "other")
       ELSE Done(r.ps, data0, rec(e2, "ok", x.out))

\* execute_plugin(plugin_name, data=None, **kwargs); given is the data
\* argument, NoneData when it is left out or passed as None
execute_plugin(ps0, data0, plugin_name, given, kw, src) ==
    LET r == PluginLoader_get_plugin(ps0, Conv, plugin_name)
        e1 == <<Resolve(plugin_name, r.cls)>>
        input_data == IF given.ty # "none" THEN given ELSE data0
        x == Execute(r.cls, input_data, kw, src)
        e2 == Append(e1, Executed(plugin_name, r.cls, input_data))
        \* custom_transform writes into the rows of the list it is given
        d1 == IF x.exc = "" /\ r.cls.kind = "transform" /\ given.ty = "none"
              THEN x.out.data ELSE data0
        rec(events, outcome, out) ==
            Call("execute_plugin", plugin_name, given.ty = "none", src, kw, events,
                 NoVResult, outcome, NoMessage, <<>>, out)
    IN IF ~r.found THEN Done(r.ps, data0, rec(e1, "KeyError", NoOutput))
       ELSE IF x.exc # "" THEN Done(r.ps, data0, rec(e2, x.exc, NoOutput))
       ELSE Done(r.ps, d1, rec(e2, "ok", x.out))

\* list_available_plugins()
list_available_plugins(ps0, data0) ==
    LET ps1 == load_plugins(ps0, Conv)
    IN Done(ps1, data0,
            Call("list_available_plugins", "", FALSE, MissingFile, NoOpts, <<>>,
                 NoVResult, "ok", NoMessage, <<>>, NamesOutput(list_plugins(ps1.registry))))

\* class cls(PluginBase): ... is executed
define(ps0, data0, cls) ==
    Done(PS(__init_subclass__(ps0.registry, cls), ps0.imported, ps0.loaders, ps0.scans),
         data0,
         Call("define", cls.cname, FALSE, MissingFile, NoOpts, <<>>, NoVResult, "ok",
              NoMessage, <<>>, NoOutput))

\* ------------------------------------------------------------- inputs
Chars(a, b) == <<a, b>>
Header == <<"name", "age">>
GoodLine == <<Chars("A", "l"), Chars("3", "0")>>     \* Al,30
ShortLine == << <<>> >>                              \* ""   (no age cell)

SeqsUpTo(S, n) == UNION { [1..k -> S] : k \in 0..n }

\* no file; a header and up to MaxRows good lines; the same with a short
\* last line
Sources ==
    {MissingFile}
    \cup { Source(TRUE, Header, [i \in 1..k |-> GoodLine]) : k \in 0..MaxRows }
    \cup { Source(TRUE, Header, [i \in 1..k |-> IF i = k THEN ShortLine ELSE GoodLine])
             : k \in 1..MaxRows }

ConvertOpts ==
    { Opts(Unset, rf, ae, Unset, "", PyNone) :
        rf \in { Unset, Given(<<"name">>), Given(<<"missing_field">>) },
        ae \in { Unset, Given(FALSE) } }
    \cup { Opts(Given(TRUE), Given(<<"name">>), Given(TRUE), Given("http://x/d"), "", PyNone),
           Opts(Given(FALSE), Unset, Unset, Unset, "", PyNone),
           Opts(Given(FALSE), Given(<<"missing_field">>), Given(FALSE),
                Given("http://x/d"), "", PyNone) }

AdHocDefault == NoOpts
AdHocStrict ==
    Opts(Unset, Given(<<"name">>), Given(FALSE), Given("http://x/d"), "name",
         PyStr(Chars("A", "l")))
AdHocCall(name, given, kw) == [name |-> name, given |-> given, kw |-> kw]
AdHocCalls ==
    { AdHocCall("non_existent_plugin", NoneData, AdHocDefault),
      AdHocCall("csv_reader", PathData, AdHocDefault),
      AdHocCall("csv_reader", NoneData, AdHocDefault),
      AdHocCall("validator", NoneData, AdHocDefault),
      AdHocCall("validator", NoneData, AdHocStrict),
      AdHocCall("validator", List(<<ScalarRow>>), AdHocStrict),
      AdHocCall("rdf_generator", NoneData, AdHocDefault),
      AdHocCall("rdf_generator", List(<<ScalarRow>>), AdHocStrict),
      AdHocCall("custom_transform", NoneData, AdHocDefault),
      AdHocCall("custom_transform", List(<<ScalarRow>>), AdHocDefault),
      AdHocCall("custom_filter", NoneData, AdHocDefault),
      AdHocCall("custom_filter", NoneData, AdHocStrict) }

\* ------------------------------------------------- the pipeline machine
FIdle == [fn |-> "none", d |-> NoneData, required_fields |-> <<>>,
          allow_empty |-> TRUE, column |-> "", kw |-> NoOpts]
FoutIdle == [done |-> FALSE, vres |-> NoVResult, dtype |-> "", step |-> Ran(NoOutput)]

FreshLoaders(pkg) ==
    [id \in LoaderIds |->
        [pkg |-> IF id = Conv THEN DefaultPackage ELSE pkg, loaded |-> FALSE,
         attempts |-> 0]]

\* CSVtoRDFConverter(csv_file, auto_load_plugins) in a fresh process, next
\* to a stand-alone PluginLoader(plugins_package)
Constructed(auto, pkg) ==
    LET ps0 == PS(<<>>, FALSE, FreshLoaders(pkg), 0)
    IN IF auto THEN load_plugins(ps0, Conv) ELSE ps0

InitWith(auto, pkg) ==
    LET ps == Constructed(auto, pkg)
    IN /\ registry = ps.registry
       /\ imported = ps.imported
       /\ loaders = ps.loaders
       /\ scans = ps.scans
       /\ data = NoneData
       /\ bound = "none"
       /\ last = Call("__init__", "", auto, MissingFile, NoOpts, <<>>, NoVResult, "ok", NoMessage,
                      <<>>, NoOutput)

Init ==
    /\ \E auto \in BOOLEAN : InitWith(auto, DefaultPackage)
    /\ fin = FIdle
    /\ fout = FoutIdle

Now == PS(registry, imported, loaders, scans)

Commit(done) ==
    /\ registry' = done.ps.registry
    /\ imported' = done.ps.imported
    /\ loaders' = done.ps.loaders
    /\ scans' = done.ps.scans
    /\ data' = done.data
    /\ bound' = IF done.assigned = "kept" THEN bound ELSE done.assigned
    /\ last' = done.call
    /\ UNCHANGED <<fin, fout>>

DefineSubclass(cls) == Commit(define(Now, data, cls))

Convert(src, opts) == Commit(convert(Now, data, src, opts))

ExecutePlugin(plugin_name, given, kw, src) ==
    /\ given.ty = "path" \/ src = MissingFile
    /\ Commit(execute_plugin(Now, data, plugin_name, given, kw, src))

ListAvailablePlugins == Commit(list_available_plugins(Now, data))

Next ==
    \/ \E cls \in UserClasses : DefineSubclass(cls)
    \/ \E src \in Sources, opts \in ConvertOpts : Convert(src, opts)
    \/ \E c \in AdHocCalls, src \in Sources : ExecutePlugin(c.name, c.given, c.kw, src)
    \/ ListAvailablePlugins

Spec == Init /\ [][Next]_vars

\* ------------------------------------------- the validator on its own
\* ValidatorPlugin().execute(data, required_fields=..., allow_empty=...)
VFields == {"a", "b"}
VValues == { PyNone, PyStr(<<>>), PyStr(<<"x">>), PyInt(0) }
\* a row is a dict with a (absent or any of the values) and b (absent, the
\* empty text or a text), or not a dict at all
VCellsA == { <<>> } \cup { <<v>> : v \in VValues }
VCellsB == { <<>>, <<PyStr(<<>>)>>, <<PyStr(<<"x">>)>> }
VRows ==
    { Dict([i \in 1..Len(ca) |-> [k |-> "a", v |-> ca[i]]]
           \o [i \in 1..Len(cb) |-> [k |-> "b", v |-> cb[i]]]) : ca \in VCellsA, cb \in VCellsB }
    \cup { ScalarRow }
VData == { NoneData, ScalarData } \cup { List(rows) : rows \in SeqsUpTo(VRows, MaxRows) }

FValidator(d, required_fields, allow_empty) ==
    [fn |-> "validator", d |-> d, required_fields |-> required_fields,
     allow_empty |-> allow_empty, column |-> "", kw |-> NoOpts]

InitValidator ==
    /\ InitWith(FALSE, DefaultPackage)
    /\ \E d \in VData, rf \in SeqsUpTo(VFields, MaxReq), ae \in BOOLEAN :
          fin = FValidator(d, rf, ae)
    /\ fout = FoutIdle

RunValidator ==
    /\ fin.fn = "validator"
    /\ ~fout.done
    /\ fout' = [done |-> TRUE,
                vres |-> ValidatorPlugin_execute(fin.d, fin.required_fields, fin.allow_empty),
                dtype |-> "", step |-> Ran(NoOutput)]
    /\ UNCHANGED <<registry, imported, loaders, scans, data, bound, last, fin>>

NextValidator == RunValidator

SpecValidator == InitValidator /\ [][NextValidator]_vars

\* --------------------------------------- datatype inference on its own
\* RDFGeneratorPlugin()._infer_datatype(data, "a")
InferAlphabet == {"5", ".", "-", " ", "x", "e", "_"}
InferTexts == SeqsUpTo(InferAlphabet, MaxText)
InferValues ==
    { PyNone, PyBool(TRUE), PyBool(FALSE), PyInt(5), PyInt(0), PyFloat(15), PyFloat(0) }
    \cup { PyStr(t) : t \in InferTexts }
RowOf(cell) == Dict([i \in 1..Len(cell) |-> [k |-> "a", v |-> cell[i]]])
\* the rows one position of the record set ranges over, and the fewer rows
\* the other positions range over
InferRows == { RowOf(<<>>) } \cup { RowOf(<<v>>) : v \in InferValues }
OtherRows ==
    { RowOf(<<>>), RowOf(<<PyNone>>), RowOf(<<PyStr(<<>>)>>), RowOf(<<PyStr(<<"x">>)>>),
      RowOf(<<PyStr(<<"5">>)>>) }
InsertAt(rows, p, r) == SubSeq(rows, 1, p - 1) \o <<r>> \o SubSeq(rows, p, Len(rows))
FInfer(d, column) ==
    [fn |-> "infer", d |-> d, required_fields |-> <<>>, allow_empty |-> TRUE,
     column |-> column, kw |-> NoOpts]

InitInfer ==
    /\ InitWith(FALSE, DefaultPackage)
    /\ \/ fin = FInfer(List(<<>>), "a")
       \/ \E k \in 1..MaxInferRows :
             \E p \in 1..k, r \in InferRows, others \in [1..(k - 1) -> OtherRows] :
                fin = FInfer(List(InsertAt(others, p, r)), "a")
    /\ fout = FoutIdle

RunInfer ==
    /\ fin.fn = "infer"
    /\ ~fout.done
    /\ fout' = [done |-> TRUE, vres |-> NoVResult,
                dtype |-> _infer_datatype(fin.d.rows, fin.column), step |-> Ran(NoOutput)]
    /\ UNCHANGED <<registry, imported, loaders, scans, data, bound, last, fin>>

NextInfer == RunInfer

SpecInfer == InitInfer /\ [][NextInfer]_vars

\* --------------------------------------------- the generator on its own
\* RDFGeneratorPlugin().execute(data, dataset_uri=...)
GFields == <<"a", "b">>
GValues == { PyStr(<<>>), PyStr(<<"5">>), PyStr(<<"x">>) }
\* the orders in which a dict can hold none, one or both of the fields
GKeyOrders == { <<>>, <<1>>, <<2>>, <<1, 2>>, <<2, 1>> }
GRows ==
    { Dict([i \in 1..Len(o) |-> [k |-> GFields[o[i]], v |-> vs[i]]]) :
        o \in GKeyOrders, vs \in [1..2 -> GValues] }
    \cup { ScalarRow }
GUris == { "http://example.org/dataset", "http://x/d" }
GKw(uri) ==
    Opts(Unset, Unset, Unset,
         IF uri = "http://example.org/dataset" THEN Unset ELSE Given(uri), "", PyNone)
FGenerator(d, kw) ==
    [fn |-> "generator", d |-> d, required_fields |-> <<>>, allow_empty |-> TRUE,
     column |-> "", kw |-> kw]

InitGenerator ==
    /\ InitWith(FALSE, DefaultPackage)
    /\ \E uri \in GUris :
          \/ \E rows \in SeqsUpTo(GRows, MaxRows) : fin = FGenerator(List(rows), GKw(uri))
          \/ fin = FGenerator(NoneData, GKw(uri))
          \/ fin = FGenerator(ScalarData, GKw(uri))
    /\ fout = FoutIdle

RunGenerator ==
    /\ fin.fn = "generator"
    /\ ~fout.done
    /\ fout' = [done |-> TRUE, vres |-> NoVResult, dtype |-> "",
                step |-> Execute(RDFGeneratorPlugin, fin.d, fin.kw, MissingFile)]
    /\ UNCHANGED <<registry, imported, loaders, scans, data, bound, last, fin>>

NextGenerator == RunGenerator

SpecGenerator == InitGenerator /\ [][NextGenerator]_vars

\* ------------------------------------------- the loaders on their own
\* what one call of load_plugins does past its _loaded guard: the import of
\* the package and, when that succeeds, the scan of its modules
Imported(pkg) == [ev |-> "import", name |-> pkg, cls |-> "", input |-> NoneData]
Scanned(pkg) == [ev |-> "scan", name |-> pkg, cls |-> "", input |-> NoneData]
LoadEvents(ps, id) ==
    IF ps.loaders[id].loaded THEN <<>>
    ELSE IF ~Resolvable(ps.loaders[id].pkg) THEN <<Imported(ps.loaders[id].pkg)>>
    ELSE <<Imported(ps.loaders[id].pkg), Scanned(ps.loaders[id].pkg)>>

\* loader.load_plugins() on the PluginLoader id
loader_load_plugins(ps0, data0, id) ==
    LET ps1 == load_plugins(ps0, id)
    IN Done(ps1, data0,
            [Call("load_plugins", "", FALSE, MissingFile, NoOpts, LoadEvents(ps0, id),
                  NoVResult, "ok",
                  NoMessage, LoadPrinted(ps0, id), NamesOutput(list_plugins(ps1.registry)))
               EXCEPT !.loader = id])

\* loader.get_plugin(name) on the PluginLoader id
loader_get_plugin(ps0, data0, id, name) ==
    LET r == PluginLoader_get_plugin(ps0, id, name)
    IN Done(r.ps, data0,
            [Call("get_plugin", name, FALSE, MissingFile, NoOpts,
                  Append(LoadEvents(ps0, id), Resolve(name, r.cls)),
                  NoVResult, IF r.found THEN "ok" ELSE "KeyError", NoMessage,
                  LoadPrinted(ps0, id), NoOutput)
               EXCEPT !.loader = id])

LookupNames == { "csv_reader", "validator", "custom_filter", "non_existent_plugin" }

\* a fresh process with the orchestrator's loader and a PluginLoader(pkg)
InitLoader ==
    /\ \E pkg \in Packages : InitWith(FALSE, pkg)
    /\ fin = FIdle
    /\ fout = FoutIdle

\* the call reaches the import of the package at most MaxAttempts times
MayCall(id) == loaders[id].loaded \/ loaders[id].attempts < MaxAttempts

LoadPlugins(id) ==
    /\ MayCall(id)
    /\ Commit(loader_load_plugins(Now, data, id))

GetPlugin(id, name) ==
    /\ MayCall(id)
    /\ Commit(loader_get_plugin(Now, data, id, name))

NextLoader ==
    \/ \E cls \in UserClasses : DefineSubclass(cls)
    \/ \E id \in LoaderIds : LoadPlugins(id)
    \/ \E id \in LoaderIds, name \in LookupNames : GetPlugin(id, name)

SpecLoader == InitLoader /\ [][NextLoader]_vars

\* ------------------------------ replacing steps between convert calls
Replacements == { FastReader, StrictValidator, CompactGenerator }

\* the class that ran each stage, most recently, up to and including call
RanBy(call, s) ==
    LET runs == SelectSeq(call.events, LAMBDA e : e.ev = "execute" /\ e.name = s)
    IN IF call.op = "convert" /\ Len(runs) > 0 THEN runs[1].cls ELSE call.before[s]
\* the handler's result with the history of the calls before it
Tracked(done) == [done EXCEPT !.call.before = [s \in Stages |-> RanBy(last, s)]]

SwapSources == { MissingFile, Source(TRUE, Header, <<GoodLine>>) }
SwapOpts ==
    { NoOpts, Opts(Given(FALSE), Unset, Unset, Unset, "", PyNone),
      Opts(Unset, Given(<<"missing_field">>), Unset, Unset, "", PyNone) }

InitSwap ==
    /\ \E auto \in BOOLEAN : InitWith(auto, DefaultPackage)
    /\ fin = FIdle
    /\ fout = FoutIdle

Replace(cls) == Commit(Tracked(define(Now, data, cls)))

ConvertTracked(src, opts) == Commit(Tracked(convert(Now, data, src, opts)))

NextSwap ==
    \/ \E cls \in Replacements : Replace(cls)
    \/ \E src \in SwapSources, opts \in SwapOpts : ConvertTracked(src, opts)

SpecSwap == InitSwap /\ [][NextSwap]_vars

\* ===================================================== validator claims
ValidatorDone == fout.done /\ fin.fn = "validator"
RecordSet(d) == IsList(d) /\ \A i \in 1..Len(d.rows) : IsDict(d.rows[i])
ErrorsOfRow(errors, idx) == SelectSeq(errors, LAMBDA e : e.row = idx)

\* "empty" as the claim reads it: the empty text or the absent value
EmptyAsClaimed(v) == v.ty = "none" \/ (v.ty = "str" /\ Len(v.s) = 0)

ErrorsOfPair(row, idx, field, allow_empty) ==
    IF ~DictHas(row, field) THEN <<VErr("missing", idx, field)>>
    ELSE IF ~allow_empty /\ EmptyAsClaimed(DictGet(row, field))
         THEN <<VErr("empty", idx, field)>>
         ELSE <<>>

RECURSIVE ErrorsOfFields(_, _, _, _, _)
ErrorsOfFields(row, idx, F, allow_empty, j) ==
    IF j > Len(F) THEN <<>>
    ELSE ErrorsOfPair(row, idx, F[j], allow_empty)
           \o ErrorsOfFields(row, idx, F, allow_empty, j + 1)

RECURSIVE ErrorsAsClaimed(_, _, _, _)
ErrorsAsClaimed(rows, F, allow_empty, i) ==
    IF i > Len(rows) THEN <<>>
    ELSE ErrorsOfFields(rows[i], i - 1, F, allow_empty, 1)
           \o ErrorsAsClaimed(rows, F, allow_empty, i + 1)

\* C3: for a non-empty record set the error list is exactly one error per
\* (record, required field) pair whose field is absent, or present but empty
\* (the empty text or the absent value) while allow_empty is false, ordered
\* by record and then by the order of the required fields.
C3_ErrorsPerPair ==
    (ValidatorDone /\ RecordSet(fin.d) /\ Len(fin.d.rows) > 0)
       => fout.vres.errors
            = ErrorsAsClaimed(fin.d.rows, fin.required_fields, fin.allow_empty, 1)

\* C4: for every input the result is invalid exactly when it lists an error.
C4_InvalidIffErrors ==
    ValidatorDone => (fout.vres.valid = FALSE <=> Len(fout.vres.errors) > 0)

C4_Witness ==
    /\ ValidatorDone
    /\ IsList(fin.d) /\ Len(fin.d.rows) = 2
    /\ ~IsDict(fin.d.rows[1]) /\ IsDict(fin.d.rows[2])
    /\ ~fout.vres.valid /\ Len(fout.vres.errors) = 2

HasNonMapping(d) == IsList(d) /\ \E i \in 1..Len(d.rows) : ~IsDict(d.rows[i])

\* C5 as stated: a record that is not a mapping short-circuits validation,
\* leaving a single error.
C5_ShortCircuit ==
    (ValidatorDone /\ HasNonMapping(fin.d))
       => (~fout.vres.valid /\ Len(fout.vres.errors) = 1)

\* C5 amended: every record that is not a mapping makes the result invalid
\* and contributes exactly one structural error and none of the field
\* errors; the other records are still checked, so a missing required
\* field of a mapping record is reported as well.
C5_EachNonMappingReported ==
    (ValidatorDone /\ IsList(fin.d)) =>
        \A i \in 1..Len(fin.d.rows) :
           IF ~IsDict(fin.d.rows[i])
           THEN /\ ~fout.vres.valid
                /\ ErrorsOfRow(fout.vres.errors, i - 1) = <<VErr("not_dict", i - 1, "")>>
           ELSE \A j \in 1..Len(fin.required_fields) :
                   ~DictHas(fin.d.rows[i], fin.required_fields[j])
                      => \E k \in 1..Len(fout.vres.errors) :
                            fout.vres.errors[k]
                              = VErr("missing", i - 1, fin.required_fields[j])

C5_Witness ==
    /\ ValidatorDone
    /\ IsList(fin.d) /\ Len(fin.d.rows) = 2
    /\ ~IsDict(fin.d.rows[1])
    /\ fin.d.rows[2] = Dict(<<>>)
    /\ fin.required_fields = <<"a">>
    /\ fout.vres.errors = <<VErr("not_dict", 0, ""), VErr("missing", 1, "a")>>

\* C6: an input that is not a list is rejected at once: invalid, exactly
\* one structural error, no warning, whatever the options are.
C6_NonListRejected ==
    (ValidatorDone /\ ~IsList(fin.d))
       => fout.vres = VResult(FALSE, <<VErr("not_list", -1, "")>>, <<>>)

C6_Witness ==
    /\ ValidatorDone
    /\ fin.d = ScalarData
    /\ fin.required_fields = <<"a", "b">> /\ ~fin.allow_empty
    /\ Len(fout.vres.errors) = 1

\* C7: an empty record set is valid with exactly one warning and no error,
\* whatever the options are.
C7_EmptyValidWithWarning ==
    (ValidatorDone /\ IsList(fin.d) /\ Len(fin.d.rows) = 0)
       => /\ fout.vres.valid
          /\ Len(fout.vres.warnings) = 1
          /\ Len(fout.vres.errors) = 0

C7_Witness ==
    /\ ValidatorDone
    /\ fin.d = List(<<>>)
    /\ fin.required_fields = <<"a">> /\ ~fin.allow_empty
    /\ fout.vres.warnings = <<"Dataset is empty">>

\* ===================================================== inference claim
InferDone == fout.done /\ fin.fn = "infer"

\* the positions whose value for the column is neither absent nor empty text
Decisive(rows, column) ==
    { i \in 1..Len(rows) :
        /\ DictHas(rows[i], column)
        /\ DictGet(rows[i], column).ty # "none"
        /\ DictGet(rows[i], column) # PyStr(<<>>) }

Min(S) == CHOOSE x \in S : \A y \in S : x <= y

TypeAsClaimed(v) ==
    CASE v.ty = "bool" -> "boolean"
      [] v.ty = "int" -> "integer"
      [] v.ty = "float" -> "decimal"
      [] v.ty = "str" /\ IsIntText(v.s) -> "integer"
      [] v.ty = "str" /\ ~IsIntText(v.s) /\ IsFloatText(v.s) -> "decimal"
      [] OTHER -> "string"

\* C8: the inferred datatype of a column is decided by the first value, in
\* record order, that is neither absent nor empty text (boolean, integer,
\* decimal or string by its type or by what its text parses as); it is
\* string when the column has no such value.
C8_FirstNonEmptyDecides ==
    (InferDone /\ RecordSet(fin.d)) =>
        LET first == Decisive(fin.d.rows, fin.column)
        IN fout.dtype =
             IF first = {} THEN "string"
             ELSE TypeAsClaimed(DictGet(fin.d.rows[Min(first)], fin.column))

C8_Witness ==
    /\ InferDone
    /\ fin.d = List(<<RowOf(<<PyStr(<<>>)>>), RowOf(<<PyStr(<<"5">>)>>),
                      RowOf(<<PyStr(<<"x">>)>>)>>)
    /\ fout.dtype = "integer"

\* ====================================================== pipeline claims
IsConvert == last.op = "convert"
\* validate is enabled unless the caller passes validate=False
ValidateEnabled(opts) == opts.validate # Given(FALSE)
Marks(events) == [i \in 1..Len(events) |-> <<events[i].ev, events[i].name>>]
ExecutionsOf(call, name) ==
    SelectSeq(call.events, LAMBDA e : e.ev = "execute" /\ e.name = name)
Mentions(call, name) == \E i \in 1..Len(call.events) : call.events[i].name = name
\* the validator ran in this call and returned an invalid result
ValidationFailed(call) ==
    Len(ExecutionsOf(call, "validator")) > 0 /\ ~call.validation.valid

\* C1: when a convert call with validate enabled gets an invalid result from
\* the validator, it fails with ValidationFailed, the message lists every
\* collected error in order, the generator is neither resolved nor
\* executed, and nothing is returned.
C1_InvalidStopsConvert ==
    (IsConvert /\ ValidateEnabled(last.opts) /\ ValidationFailed(last)) =>
        /\ last.outcome = "ValueError"
        /\ last.validation
             = ValidatorPlugin_execute(CSVReaderPlugin_read(last.src),
                                       KwGet(last.opts.required_fields, <<>>),
                                       KwGet(last.opts.allow_empty, TRUE))
        /\ last.message.head = "Validation failed:"
        /\ last.message.lines = last.validation.errors
        /\ ~Mentions(last, "rdf_generator")
        /\ last.output = NoOutput

\* two records that both lack the required field: exactly two errors listed
C1_Witness ==
    /\ IsConvert
    /\ Len(last.src.lines) = 2
    /\ last.opts.required_fields = Given(<<"missing_field">>)
    /\ last.outcome = "ValueError"
    /\ last.message.lines
         = <<VErr("missing", 0, "missing_field"), VErr("missing", 1, "missing_field")>>

StagesOf(opts) ==
    <<<<"resolve", "csv_reader">>, <<"execute", "csv_reader">>>>
      \o (IF ValidateEnabled(opts)
          THEN <<<<"resolve", "validator">>, <<"execute", "validator">>>>
          ELSE <<>>)
      \o <<<<"resolve", "rdf_generator">>, <<"execute", "rdf_generator">>>>

\* the reader has returned when the call went on to resolve another step
ReaderReturned(call) == Len(call.events) > 2

\* C2: a convert call runs reader, validator, generator in that order, each
\* at most once and each after the previous one returned (the lookups and
\* executions of a call are a prefix of the fixed sequence, all of it when
\* the call succeeds); once the reader has returned, the validator runs
\* exactly when validate is enabled (the default), and every later stage
\* receives the record set the reader returned.
C2_StageOrder ==
    IsConvert =>
        /\ \E k \in 0..Len(StagesOf(last.opts)) :
              Marks(last.events) = SubSeq(StagesOf(last.opts), 1, k)
        /\ last.outcome = "ok" => Marks(last.events) = StagesOf(last.opts)
        /\ ReaderReturned(last) =>
              /\ Len(ExecutionsOf(last, "validator"))
                   = (IF ValidateEnabled(last.opts) THEN 1 ELSE 0)
              /\ data = CSVReaderPlugin_read(last.src)
              /\ \A i \in 3..Len(last.events) :
                    last.events[i].ev = "execute" => last.events[i].input = data

\* validation is switched off for a source that would not pass it
C2_Witness ==
    /\ IsConvert
    /\ last.opts.validate = Given(FALSE)
    /\ last.opts.required_fields = Given(<<"missing_field">>)
    /\ Len(last.src.lines) = 2
    /\ last.outcome = "ok"
    /\ Len(ExecutionsOf(last, "rdf_generator")) = 1
    /\ ExecutionsOf(last, "rdf_generator")[1].input = CSVReaderPlugin_read(last.src)

\* ====================================================== registry claims
StepNames == { "csv_reader", "custom_transform", "rdf_generator", "validator",
               "custom_filter", "non_existent_plugin" }
Lookup(reg, name) == PluginBase_get_plugin(reg, name)
Hit(cls) == [found |-> TRUE, cls |-> cls]
OthersKept(names) ==
    \A n \in StepNames \ names : Lookup(registry', n) = Lookup(registry, n)

\* C9: a registration makes lookup return the class just registered under
\* its name, also when the name was in use, and changes no other name; a
\* step that registers nothing leaves the registry as it is.  The
\* registrations are the class definitions (private classes register
\* nothing) and the first import of the plugin modules.
C9_LastWriteWins ==
    [][ /\ \A cls \in UserClasses :
              (last'.op = "define" /\ last'.name = cls.cname) =>
                  IF cls.private THEN registry' = registry
                  ELSE /\ Lookup(registry', cls.override) = Hit(cls)
                       /\ OthersKept({cls.override})
        /\ (~imported /\ imported') =>
              /\ \A i \in 1..Len(PluginModules) :
                    Lookup(registry', PluginModules[i].override) = Hit(PluginModules[i])
              /\ OthersKept({ PluginModules[i].override : i \in 1..Len(PluginModules) })
        /\ (last'.op # "define" /\ imported' = imported) => registry' = registry
      ]_vars

\* "validator" was in use by the built-in class and is now the user's class
C9_Witness ==
    /\ imported
    /\ last.op = "define" /\ last.name = "StrictValidator"
    /\ Lookup(registry, "validator").cls.cname = "StrictValidator"
    /\ Lookup(registry, "csv_reader") = Hit(CSVReaderPlugin)

\* ======================================================= ad hoc claims
\* C10 as stated: ad hoc execution of a name that is not registered fails
\* with NotFound and leaves the registry and the cached record set as they
\* were, in every state of the orchestrator.
C10_UnregisteredLeavesAll ==
    [][ (last'.op = "execute_plugin" /\ ~RegHas(registry, last'.name)) =>
            /\ last'.outcome = "KeyError"
            /\ registry' = registry
            /\ data' = data
      ]_vars

\* C10 amended: ad hoc execution of a name that is still not registered
\* once the lookup has run the loader's on-demand discovery fails with
\* NotFound and leaves the cached record set as it was; it leaves the
\* registry as it was when the orchestrator's loader had already loaded.
C10_UnregisteredAfterDiscovery ==
    [][ (last'.op = "execute_plugin" /\ ~RegHas(registry', last'.name)) =>
            /\ last'.outcome = "KeyError"
            /\ data' = data
            /\ loaders[Conv].loaded => registry' = registry
      ]_vars

\* the call failed while a record set was cached
C10_Witness ==
    /\ last.op = "execute_plugin" /\ last.name = "non_existent_plugin"
    /\ last.outcome = "KeyError"
    /\ IsList(data) /\ Len(data.rows) = 2
\* ===================================================== discovery claims
IsLoad == last.op = "load_plugins"
Occurrences(reg, name) == Cardinality({ i \in 1..Len(reg) : reg[i].name = name })
DiscoveredNames == { PluginModules[i].override : i \in 1..Len(PluginModules) }
Loaded == { id \in LoaderIds : loaders[id].loaded }

\* C11 as stated: on every loader a second call to load is a cache hit, so
\* no loader imports its plugin location more than once; load returns the
\* current registry names and each discovered step is registered once.
C11_SecondLoadIsCacheHit ==
    /\ \A id \in LoaderIds : loaders[id].attempts <= 1
    /\ IsLoad => last.output = NamesOutput(list_plugins(registry))
    /\ imported => \A n \in DiscoveredNames : Occurrences(registry, n) = 1

\* C11 amended: a call to load on a loader whose discovery has succeeded is
\* a cache hit: it imports and scans nothing, prints nothing, changes neither
\* the registry nor the loader and returns the current registry names.  Each
\* loader scans at most once, and each discovered step is registered exactly
\* once: it has one registry entry, and once the plugin modules are imported
\* no load or lookup of any loader registers anything again.
C11_LoadedIsCacheHit ==
    /\ [](/\ scans = Cardinality(Loaded)
          /\ IsLoad => last.output = NamesOutput(list_plugins(registry))
          /\ imported => \A n \in DiscoveredNames : Occurrences(registry, n) = 1)
    /\ [][ /\ \A id \in LoaderIds :
                ((loaders[id].loaded /\ last'.op = "load_plugins" /\ last'.loader = id) =>
                    (/\ last'.events = <<>>
                     /\ last'.printed = <<>>
                     /\ last'.output = NamesOutput(list_plugins(registry))
                     /\ registry' = registry
                     /\ imported' = imported
                     /\ scans' = scans
                     /\ loaders' = loaders))
           /\ (imported /\ last'.op \in {"load_plugins", "get_plugin"}) =>
                   registry' = registry
         ]_vars

\* a cache hit on the second loader, after the program replaced the
\* discovered validator: the replacement is still registered
C11_Witness ==
    /\ IsLoad /\ last.loader = Aux
    /\ loaders[Aux].loaded /\ last.events = <<>>
    /\ scans = 2
    /\ Lookup(registry, "validator").cls.cname = "StrictValidator"
    /\ last.output = NamesOutput(list_plugins(registry))
\* the loader id was created for a package that cannot be imported
Unresolved(id) == ~Resolvable(loaders[id].pkg)
ResolvedClass(call) == call.events[Len(call.events)].cls

\* C12: on a loader whose plugin location cannot be resolved, load does not
\* raise: it prints a warning and returns the names already registered,
\* leaving the registry as it was (nothing imported, nothing scanned, the
\* loader still not loaded); a lookup through that loader of a step that is
\* registered succeeds and returns the registered class.
C12_FailsSoftly ==
    [][ \A id \in LoaderIds :
          (Unresolved(id) /\ last'.loader = id) =>
             (/\ last'.op = "load_plugins" =>
                    (/\ last'.outcome = "ok"
                     /\ last'.printed = <<LoadWarning>>
                     /\ last'.output = NamesOutput(list_plugins(registry))
                     /\ registry' = registry
                     /\ imported' = imported
                     /\ scans' = scans
                     /\ ~loaders'[id].loaded)
              /\ (last'.op = "get_plugin" /\ RegHas(registry, last'.name)) =>
                    (/\ last'.outcome = "ok"
                     /\ ResolvedClass(last') = Lookup(registry, last'.name).cls.cname
                     /\ registry' = registry))
      ]_vars

\* nothing was ever discovered in this process; the step found is one the
\* program registered itself
C12_Witness ==
    /\ last.op = "get_plugin" /\ last.loader = Aux /\ Unresolved(Aux)
    /\ ~imported
    /\ last.printed = <<LoadWarning>>
    /\ last.name = "custom_filter" /\ last.outcome = "ok"
    /\ ResolvedClass(last) = "CustomFilterPlugin"
    /\ list_plugins(registry) = <<"custom_filter">>
\* ================================================== resolution claims
Executions(call) == SelectSeq(call.events, LAMBDA e : e.ev = "execute")
Registered(name) == Lookup(registry, name).cls.cname

\* C13: every stage a convert call runs executes the class registered
\* under the stage's name when the stage runs; when that class is not the
\* one that ran the stage in the earlier convert call (the step was
\* replaced in between), the call executes the new class and not the old.
C13_ResolvesAtCallTime ==
    IsConvert =>
        \A i \in 1..Len(Executions(last)) :
            LET e == Executions(last)[i]
            IN /\ e.cls = Registered(e.name)
               /\ Registered(e.name) # last.before[e.name] => e.cls # last.before[e.name]

\* the earlier convert ran the three discovered classes, this one runs the
\* three replacements
C13_Witness ==
    /\ IsConvert /\ last.outcome = "ok"
    /\ last.before = [s \in Stages |->
                        CASE s = "csv_reader" -> "CSVReaderPlugin"
                          [] s = "validator" -> "ValidatorPlugin"
                          [] OTHER -> "RDFGeneratorPlugin"]
    /\ [i \in 1..Len(Executions(last)) |-> Executions(last)[i].cls]
         = <<"FastReader", "StrictValidator", "CompactGenerator">>
\* ================================================= reader failure claims
\* C14: a convert call on a source that does not exist fails with the
\* reader's NotFound: the reader is looked up and executed exactly once,
\* neither the validator nor the generator is looked up or executed,
\* nothing is printed and nothing is returned.
C14_MissingSourceSurfaces ==
    (IsConvert /\ ~last.src.exists) =>
        /\ last.outcome = "FileNotFoundError"
        /\ Marks(last.events) = <<<<"resolve", "csv_reader">>, <<"execute", "csv_reader">>>>
        /\ Len(ExecutionsOf(last, "csv_reader")) = 1
        /\ ~Mentions(last, "validator")
        /\ ~Mentions(last, "rdf_generator")
        /\ last.printed = <<>>
        /\ last.output = NoOutput

\* the call would have validated; an earlier call had read two records
C14_Witness ==
    /\ IsConvert /\ last.src = MissingFile
    /\ last.opts.required_fields = Given(<<"name">>)
    /\ last.outcome = "FileNotFoundError"
    /\ Len(ExecutionsOf(last, "csv_reader")) = 1
    /\ IsList(data) /\ Len(data.rows) = 2
\* ======================================================= warning claims
\* the validator ran in this call and returned valid with warnings
ValidWithWarnings(call) ==
    /\ Len(ExecutionsOf(call, "validator")) > 0
    /\ call.validation.valid
    /\ Len(call.validation.warnings) > 0

\* C15: when the validator of a convert call returns valid with warnings,
\* convert prints every warning, still executes the generator once on the
\* record set that was read, and returns the generator's output.
C15_WarningsNotFatal ==
    (IsConvert /\ ValidWithWarnings(last)) =>
        /\ last.validation
             = ValidatorPlugin_execute(CSVReaderPlugin_read(last.src),
                                       KwGet(last.opts.required_fields, <<>>),
                                       KwGet(last.opts.allow_empty, TRUE))
        /\ last.printed = <<"Validation warnings:">> \o last.validation.warnings
        /\ Len(ExecutionsOf(last, "rdf_generator")) = 1
        /\ ExecutionsOf(last, "rdf_generator")[1].input = CSVReaderPlugin_read(last.src)
        /\ last.outcome = "ok"
        /\ last.output
             = RdfOutput("turtle",
                         RDFGeneratorPlugin_graph(CSVReaderPlugin_read(last.src),
                             KwGet(last.opts.dataset_uri, DefaultDatasetUri)))

\* a source with a header and no records, checked for a required field
\* that no record could have
C15_Witness ==
    /\ IsConvert /\ last.src.exists /\ Len(last.src.lines) = 0
    /\ last.opts.required_fields = Given(<<"missing_field">>)
    /\ last.opts.allow_empty = Given(FALSE)
    /\ last.validation = VResult(TRUE, <<>>, <<"Dataset is empty">>)
    /\ last.printed = <<"Validation warnings:", "Dataset is empty">>
    /\ last.outcome = "ok" /\ last.output.ty = "rdf"
\* ===================================================== generator claims
GeneratorDone == fout.done /\ fin.fn = "generator"
Emitted == fout.step.out.graph
GivenUri == KwGet(fin.kw.dataset_uri, "http://example.org/dataset")
SubjectsOf(p, o) == { t.s : t \in { u \in Emitted : u.p = p /\ u.o = o } }
ObjectsOf(s, p) == { t.o : t \in { u \in Emitted : u.s = s /\ u.p = p } }
SchemaResources == SubjectsOf("rdf:type", Vocab("csvw:TableSchema"))
ColumnResources == SubjectsOf("rdf:type", Vocab("csvw:Column"))
SchemaLinks == { t \in Emitted : t.p = "csvw:tableSchema" }
ColumnLinks == { t \in Emitted : t.p = "csvw:column" }
FieldNamesOf(row) == { row.items[j].k : j \in 1..Len(row.items) }
\* the distinct field names of all the records
FieldNames(d) == UNION { FieldNamesOf(d.rows[i]) : i \in 1..Len(d.rows) }

\* one schema resource linked from the dataset, one column resource per
\* name in names, the columns of the first record numbered in its order,
\* each column with its name as name, title and label and one datatype
SchemaDescribes(names) ==
    /\ Cardinality(SchemaResources) = 1
    /\ \A S \in SchemaResources :
          /\ SchemaLinks = { Triple(DatasetRef(GivenUri), "csvw:tableSchema", S) }
          /\ ColumnLinks = { Triple(S, "csvw:column", c) : c \in ColumnResources }
    /\ Cardinality(ColumnResources) = Cardinality(names)
    /\ \A n \in names :
          \E c \in ColumnResources :
             /\ ObjectsOf(c, "csvw:name") = { Literal(n) }
             /\ ObjectsOf(c, "csvw:title") = { Literal(n) }
             /\ ObjectsOf(c, "rdfs:label") = { Literal(n) }
             /\ ObjectsOf(c, "csvw:datatype") = { Literal(_infer_datatype(fin.d.rows, n)) }
    /\ LET first == DictKeys(fin.d.rows[1])
       IN \A i \in 1..Len(first) :
             ObjectsOf(ColumnRef(GivenUri, i - 1), "csvw:name") = { Literal(first[i]) }

NoSchema == SchemaResources = {} /\ ColumnResources = {} /\ SchemaLinks = {} /\ ColumnLinks = {}

\* C16 as stated: for a non-empty record set of mappings the generator
\* emits one schema resource linked from the dataset and one column
\* resource per distinct field name of the record set; for an empty or
\* non-mapping record set it emits no schema, no column and no link.
C16_ColumnPerFieldName ==
    GeneratorDone =>
        IF RecordSet(fin.d) /\ Len(fin.d.rows) > 0
        THEN fout.step.exc = "" /\ SchemaDescribes(FieldNames(fin.d))
        ELSE NoSchema

\* the input is not a list, or is empty, or its first record is not a mapping
FirstNotMapping(d) ==
    IF IsList(d) /\ Len(d.rows) > 0 THEN ~IsDict(d.rows[1]) ELSE TRUE

\* C16 amended: for a non-empty record set of mappings the generator emits
\* one schema resource linked from the dataset and one column resource per
\* field name of the first record, numbered in the order of that record,
\* each with its name as name, title and label and one inferred datatype;
\* for an empty record set, or one whose first record is not a mapping, it
\* emits no schema resource, no column and no schema link.
C16_ColumnPerFirstRecordField ==
    GeneratorDone =>
        /\ (RecordSet(fin.d) /\ Len(fin.d.rows) > 0) =>
               (fout.step.exc = "" /\ SchemaDescribes(FieldNamesOf(fin.d.rows[1])))
        /\ FirstNotMapping(fin.d) => (fout.step.exc = "" /\ NoSchema)

\* the first record holds b before a; the second has an empty a
C16_Witness ==
    /\ GeneratorDone
    /\ Len(fin.d.rows) = 2 /\ DictKeys(fin.d.rows[1]) = <<"b", "a">>
    /\ DictKeys(fin.d.rows[2]) = <<"a">>
    /\ Cardinality(ColumnResources) = 2
    /\ ObjectsOf(ColumnRef(GivenUri, 0), "csvw:name") = { Literal("b") }
    /\ ObjectsOf(ColumnRef(GivenUri, 1), "csvw:datatype") = { Literal("integer") }
\* ========================================================= cache claims
\* C17: the cached record set is unset, or it is the record set the read
\* stage of the latest convert call whose read succeeded returned.  A
\* convert call whose read succeeds caches what it read, also when it then
\* fails validation; a convert call whose read fails leaves the cache as it
\* was; ad hoc execution never makes the cache name another object.
C17_CacheIsLatestRead ==
    /\ [](/\ bound \in {"none", "read"}
          /\ bound = "none" <=> data = NoneData)
    /\ [][ /\ (last'.op = "convert" /\ ReaderReturned(last')) =>
                 (bound' = "read" /\ data' = CSVReaderPlugin_read(last'.src))
           /\ (last'.op = "convert" /\ ~ReaderReturned(last')) =>
                 (bound' = bound /\ data' = data)
           /\ last'.op = "execute_plugin" => bound' = bound
         ]_vars

\* the call read two records and then failed validation
C17_Witness ==
    /\ IsConvert /\ last.outcome = "ValueError"
    /\ Len(last.src.lines) = 2
    /\ bound = "read"
    /\ data = CSVReaderPlugin_read(last.src)
\* ================================================ in-place change claims
AddedFields == { "_transformed", "_plugin" }
\* new is old with the two fields set and every other field as it was
FieldsAdded(old, new) ==
    /\ IsDict(new)
    /\ FieldNamesOf(new) = FieldNamesOf(old) \cup AddedFields
    /\ DictGet(new, "_transformed") = PyBool(TRUE)
    /\ DictGet(new, "_plugin") = PyStr(CustomTransformName)
    /\ \A k \in FieldNamesOf(old) \ AddedFields : DictGet(new, k) = DictGet(old, k)
Transformed(d) ==
    IsList(d) /\ Len(d.rows) > 0
       /\ \A i \in 1..Len(d.rows) : AddedFields \subseteq FieldNamesOf(d.rows[i])
\* the call was ad hoc, with its input left out, and found its step
DefaultedRun(call) ==
    call.op = "execute_plugin" /\ call.auto /\ Len(call.events) = 2

\* C18: an ad hoc run with no input executes its step on the cached record
\* set as it is then, with the fields earlier runs added.  Such a run of
\* custom_transform leaves the cache with the same records, each mapping
\* now holding _transformed = True and _plugin = "custom_transform" and
\* its other fields as before; such a run of validator or rdf_generator
\* leaves the cached record set as it was.
C18_TransformsCacheInPlace ==
    [][ DefaultedRun(last') =>
          /\ last'.events[2].input = data
          /\ (last'.name = "custom_transform" /\ IsList(data)) =>
                /\ IsList(data') /\ Len(data'.rows) = Len(data.rows)
                /\ \A i \in 1..Len(data.rows) :
                      IF IsDict(data.rows[i]) THEN FieldsAdded(data.rows[i], data'.rows[i])
                      ELSE data'.rows[i] = data.rows[i]
          /\ last'.name \in {"validator", "rdf_generator"} => data' = data
      ]_vars

\* an ad hoc validator run after the transform is given the two cached
\* records with the added fields
C18_Witness ==
    /\ DefaultedRun(last) /\ last.name = "validator"
    /\ Transformed(data) /\ Len(data.rows) = 2
    /\ last.events[2].input = data
    /\ last.outcome = "ok"
====
